---- MODULE Spec2Model ----
(***************************************************************************)
(* Model of make_redirects_to_archive.py: the redirect stub generator.     *)
(*                                                                         *)
(* Text is modelled as a sequence of tokens.  A file name, a slug and a    *)
(* title are sequences of one-character strings.  A page text is a lexed   *)
(* sequence: an opening or closing title tag and an HTML character         *)
(* reference are one token each (none of them holds a whitespace           *)
(* character, and the plain characters of the alphabet cannot form or      *)
(* extend one), every other character is its own token.  A rendered stub   *)
(* is the concatenation of the template's literal pieces (one token each)  *)
(* and the substituted values.                                             *)
(*                                                                         *)
(* The file system is part of the state.  Whether a read, a mkdir or a     *)
(* write fails is decided by that state (an unreadable file, a regular     *)
(* file where a directory is needed, a read-only directory, a directory    *)
(* where index.html is to be written), so a run is a deterministic         *)
(* function of the archive and the working directory it starts from.       *)
(***************************************************************************)
EXTENDS Integers, Sequences, FiniteSets, TLC

VARIABLES
    archiveKind,  \* what ARCHIVE_SOURCE resolves to: "missing", "file", "dir"
    archive,      \* direct children of the archive directory: name -> entry
    wd,           \* working directory: name -> entry (the ./<name> path)
    wd0,          \* the working directory before the first run
    cwdWritable,  \* whether new entries can be created in the working directory
    pc,           \* position of main(): "idle", "loop", "exited"
    html_files,   \* the pages of the loop at line 43 not yet processed
    created,      \* the counter of line 42
    status,       \* how the last run ended: "none", "ok", or the exception
    run,          \* number of runs of main() started
    reads,        \* archive files read by the current run (read_text calls)
    writes,       \* stubs written by the current run, in order
    printed,      \* summary lines printed by the current run
    snap,         \* the working directory as the first run left it
    ftpc,         \* find_title harness: "off", "call" or "returned"
    ftText,       \* find_title argument html_text
    ftFallback,   \* find_title argument fallback
    ftResult      \* find_title return value

mainVars == <<archiveKind, archive, wd, wd0, cwdWritable, pc, html_files, created,
              status, run, reads, writes, printed, snap>>
ftVars == <<ftpc, ftText, ftFallback, ftResult>>
vars == <<mainVars, ftVars>>

----------------------------------------------------------------------------
(* Characters and strings *)

LowerAlpha == <<"a","b","c","d","e","f","g","h","i","j","k","l","m",
                "n","o","p","q","r","s","t","u","v","w","x","y","z">>
UpperAlpha == <<"A","B","C","D","E","F","G","H","I","J","K","L","M",
                "N","O","P","Q","R","S","T","U","V","W","X","Y","Z">>
Digits == <<"0","1","2","3","4","5","6","7","8","9">>

\* The characters of the model's file names in code point order.
CodePointOrder == <<" ", "-", ".">> \o Digits \o UpperAlpha \o <<"_">> \o LowerAlpha

IndexOf(c, s) == IF \E i \in 1..Len(s) : s[i] = c
                 THEN CHOOSE i \in 1..Len(s) : s[i] = c
                 ELSE 0

OrdTable == [c \in {CodePointOrder[i] : i \in 1..Len(CodePointOrder)} |->
                IndexOf(c, CodePointOrder)]
Ord(c) == OrdTable[c]

UpperSet == {UpperAlpha[i] : i \in 1..Len(UpperAlpha)}
LowerSet == {LowerAlpha[i] : i \in 1..Len(LowerAlpha)}
LowerOf == [c \in UpperSet |-> LowerAlpha[IndexOf(c, UpperAlpha)]]
UpperOf == [c \in LowerSet |-> UpperAlpha[IndexOf(c, LowerAlpha)]]

IsUpper(c) == c \in UpperSet
IsLower(c) == c \in LowerSet
IsCased(c) == IsUpper(c) \/ IsLower(c)
ToLower(c) == IF IsUpper(c) THEN LowerOf[c] ELSE c
ToUpper(c) == IF IsLower(c) THEN UpperOf[c] ELSE c

\* str.lower()
StrLower(s) == [i \in 1..Len(s) |-> ToLower(s[i])]

\* str.replace("-", " ")
ReplaceHyphens(s) == [i \in 1..Len(s) |-> IF s[i] = "-" THEN " " ELSE s[i]]

\* str.title(): a cased character is upper-cased when the character before it
\* is not cased, and lower-cased when it is; other characters are kept.
StrTitle(s) ==
    [i \in 1..Len(s) |->
        IF ~IsCased(s[i]) THEN s[i]
        ELSE IF i > 1 /\ IsCased(s[i-1]) THEN ToLower(s[i])
        ELSE ToUpper(s[i])]

\* Comparison of str: lexicographic by code point, a proper prefix first.
StrLess(a, b) ==
    \E k \in 1..(Len(b)) :
        /\ \A i \in 1..(k-1) : i <= Len(a) /\ a[i] = b[i]
        /\ \/ Len(a) = k - 1
           \/ Len(a) >= k /\ Ord(a[k]) < Ord(b[k])

\* Last position of a "." in the name, 0 if none (str.rfind, 1-based).
LastDot(name) ==
    IF \E i \in 1..Len(name) : name[i] = "."
    THEN CHOOSE i \in 1..Len(name) :
            name[i] = "." /\ \A j \in (i+1)..Len(name) : name[j] # "."
    ELSE 0

\* PurePath.suffix: the last dot and what follows it, unless the dot is the
\* first or the last character of the name.
Suffix(name) ==
    LET i == LastDot(name)
    IN  IF 1 < i /\ i < Len(name) THEN SubSeq(name, i, Len(name)) ELSE <<>>

\* PurePath.stem: the name without its suffix.
Stem(name) ==
    LET i == LastDot(name)
    IN  IF 1 < i /\ i < Len(name) THEN SubSeq(name, 1, i - 1) ELSE name

----------------------------------------------------------------------------
(* Configuration, lines 14-16 *)

ARCHIVE_MOUNT == <<"/archive/">>
PUBLIC_BASE == <<"https://spi.blue">>
EXCLUDE_FILES == { <<"i","n","d","e","x",".","h","t","m","l">>,
                   <<"4","0","4",".","h","t","m","l">> }
DotHtml == <<".","h","t","m","l">>

----------------------------------------------------------------------------
(* find_title, lines 20-30 *)

MaxTitleLen == 140

OpenTags == {"<title>", "<TITLE lang=en>"}
CloseTags == {"</title>", "</TITLE>"}
Whitespace == {" ", "\n", "\t"}

\* html.unescape on one token: the character a character reference stands
\* for; any other token is kept.
CharRef(tok) ==
    CASE tok = "&amp;" -> "&"
      [] tok = "&#32;" -> " "
      [] OTHER -> tok

Unescape(s) == [i \in 1..Len(s) |-> CharRef(s[i])]

\* re.sub(r"\s+", " ", s): every maximal run of whitespace becomes one space
\* (the last character of a run is turned into the space, the others go).
CollapseWs(s) ==
    LET marked == [i \in 1..Len(s) |->
                      IF s[i] \notin Whitespace THEN s[i]
                      ELSE IF i < Len(s) /\ s[i+1] \in Whitespace THEN ""
                      ELSE " "]
        Kept(tok) == tok # ""
    IN  SelectSeq(marked, Kept)

\* str.strip(): leading and trailing whitespace removed.
Strip(s) ==
    IF \A i \in 1..Len(s) : s[i] \in Whitespace THEN <<>>
    ELSE LET a == CHOOSE i \in 1..Len(s) :
                     s[i] \notin Whitespace /\ \A j \in 1..(i-1) : s[j] \in Whitespace
             b == CHOOSE i \in 1..Len(s) :
                     s[i] \notin Whitespace /\ \A j \in (i+1)..Len(s) : s[j] \in Whitespace
         IN  SubSeq(s, a, b)

\* Line 24: the leftmost match of <title[^>]*>(.*?)</title>, as the pair of
\* positions of its opening and closing tag; <<0, 0>> when there is none.
\* The leftmost opening tag that a closing tag follows is the first opening
\* tag, and the lazy body ends at the first closing tag after it.
TitleMatch(text) ==
    LET opens == {i \in 1..Len(text) : text[i] \in OpenTags}
        o == CHOOSE i \in opens : \A j \in opens : i <= j
        closes == {i \in 1..Len(text) : i > o /\ text[i] \in CloseTags}
        c == CHOOSE i \in closes : \A j \in closes : i <= j
    IN  IF opens = {} THEN <<0, 0>>
        ELSE IF closes = {} THEN <<0, 0>>
        ELSE <<o, c>>

HasTitle(text) == TitleMatch(text)[1] > 0

\* m.group(1)
TitleBody(text) ==
    LET m == TitleMatch(text) IN SubSeq(text, m[1] + 1, m[2] - 1)

\* Line 27
CleanTitle(body) == Unescape(Strip(CollapseWs(body)))

TruncateEllipsis(title) ==
    IF Len(title) > MaxTitleLen
    THEN SubSeq(title, 1, MaxTitleLen) \o <<".", ".", ".">>
    ELSE title

\* Line 29
Truncate(title) ==
    IF Len(title) > MaxTitleLen THEN SubSeq(title, 1, MaxTitleLen) ELSE title

find_title(html_text, fallback) ==
    IF HasTitle(html_text)
    THEN Truncate(CleanTitle(TitleBody(html_text)))
    ELSE fallback

----------------------------------------------------------------------------
(* The archive directory and the working directory *)

MaxEntries == 3
MaxRuns == 2

Name_a_html == <<"a",".","h","t","m","l">>
Name_a_HTML == <<"a",".","H","T","M","L">>
Name_b_c_html == <<"b","-","c",".","h","t","m","l">>
Name_index_html == <<"i","n","d","e","x",".","h","t","m","l">>
Name_index_HTML == <<"i","n","d","e","x",".","H","T","M","L">>
Name_404_html == <<"4","0","4",".","h","t","m","l">>
Name_notes_txt == <<"n","o","t","e","s",".","t","x","t">>
Name_d_html == <<"d",".","h","t","m","l">>
Name_e_html == <<"e",".","h","t","m","l">>
Name_keep == <<"k","e","e","p">>

TextTitled == <<"x", "<title>", " ", "H", "i", "\n", " ", "&amp;", "c", " ", "</title>", "x">>
TextNoTitle == <<"<title>", "H", "i">>

FileEntry(text, readable) ==
    [kind |-> "file", text |-> text, readable |-> readable, children |-> {}]
DirEntry(children) ==
    [kind |-> "dir", text |-> <<>>, readable |-> FALSE, children |-> children]

\* The entries a name of the model's archive can stand for.
EntriesFor(name) ==
    IF name \in {Name_a_html, Name_b_c_html}
    THEN {FileEntry(TextTitled, TRUE), FileEntry(TextNoTitle, TRUE),
          FileEntry(TextTitled, FALSE)}
    ELSE IF name = Name_d_html THEN {DirEntry({Name_e_html})}
    ELSE {FileEntry(TextTitled, TRUE)}

ArchiveNames == {Name_a_html, Name_a_HTML, Name_b_c_html, Name_index_html,
                 Name_index_HTML, Name_404_html, Name_notes_txt, Name_d_html}

Archives ==
    UNION { {f \in [D -> UNION {EntriesFor(n) : n \in D}] :
                \A n \in D : f[n] \in EntriesFor(n)} :
            D \in {D \in SUBSET ArchiveNames : Cardinality(D) <= MaxEntries} }

\* An entry ./<name> of the working directory: a regular file, or a directory
\* with its index.html (absent, a regular file with data, or a directory).
WdFile(data) == [kind |-> "file", writable |-> TRUE, ikind |-> "absent", data |-> data]
WdDir(writable, ikind, data) ==
    [kind |-> "dir", writable |-> writable, ikind |-> ikind, data |-> data]

Stale == <<"stale">>
PreEntries == {WdFile(Stale), WdDir(TRUE, "absent", <<>>), WdDir(TRUE, "file", Stale),
               WdDir(TRUE, "dir", <<>>), WdDir(FALSE, "absent", <<>>),
               WdDir(FALSE, "file", Stale)}
PreNames == {Stem(Name_a_html), Stem(Name_index_html)}

EmptyDir == [n \in {} |-> WdFile(<<>>)]

\* The working directories a run starts from: empty, or holding one entry.
WorkingDirs ==
    {EmptyDir}
    \cup {[n \in {m} |-> e] : m \in PreNames, e \in PreEntries}
    \cup {[n \in {Name_keep} |-> e] : e \in {WdFile(Stale), WdDir(TRUE, "file", Stale)}}

----------------------------------------------------------------------------
(* main, lines 33-81 *)

\* Path.iterdir(): the direct children of the directory.
Iterdir(arch) == DOMAIN arch

\* Path.is_file()
IsFile(entry) == entry.kind = "file"

EligibleNoExclude(arch, name) ==
    /\ IsFile(arch[name])
    /\ StrLower(Suffix(name)) = DotHtml

\* The filter of line 39.
Eligible(arch, name) ==
    /\ IsFile(arch[name])
    /\ StrLower(Suffix(name)) = DotHtml
    /\ name \notin EXCLUDE_FILES

\* list.sort() of line 40: the names in ascending order.
RECURSIVE Sorted(_)
Sorted(S) ==
    IF S = {} THEN <<>>
    ELSE LET m == CHOOSE x \in S : \A y \in S : x = y \/ StrLess(x, y)
         IN  <<m>> \o Sorted(S \ {m})

\* Lines 39-40
CollectPages(arch) == Sorted({n \in Iterdir(arch) : Eligible(arch, n)})

TargetRelSlug(name) == ARCHIVE_MOUNT \o Stem(name) \o DotHtml

\* Line 45
TargetRel(name) == ARCHIVE_MOUNT \o name

\* Line 46
TargetAbs(name) == PUBLIC_BASE \o TargetRel(name)

ReadTextRaises(entry) ==
    [raised |-> ~entry.readable,
     text |-> IF entry.readable THEN entry.text ELSE <<>>]

\* Lines 49-52: read_text inside try/except Exception; a failed read gives "".
ReadText(entry) ==
    [raised |-> FALSE,
     text |-> IF entry.kind = "file" /\ entry.readable THEN entry.text ELSE <<>>]

\* Line 53: slug.replace("-", " ").title()
Fallback(slug) == StrTitle(ReplaceHyphens(slug))

\* The literal pieces of the template, lines 61-76.
Lit1 == "<!DOCTYPE html>\n<html lang=\"en\">\n  <head>\n    <meta charset=\"utf-8\">\n    <title>"
Lit2 == "</title>\n    <link rel=\"canonical\" href=\""
Lit3 == "\">\n    <meta http-equiv=\"refresh\" content=\"0; url="
Lit4 == "\">\n    <meta name=\"robots\" content=\"noarchive\">\n    <meta name=\"viewport\" content=\"width=device-width, initial-scale=1\">\n    <script>location.replace(\""
Lit5 == "\");</script>\n  </head>\n  <body>\n    <p>If you are not redirected, <a href=\""
Lit6 == "\">click here</a>.</p>\n  </body>\n</html>\n"

\* Lines 61-76
Render(title, target_abs, target_rel) ==
    <<Lit1>> \o title \o <<Lit2>> \o target_abs \o <<Lit3>> \o target_rel
    \o <<Lit4>> \o target_rel \o <<Lit5>> \o target_rel \o <<Lit6>>

MkdirForce(dir, writableCwd, slug) ==
    IF slug \in DOMAIN dir /\ dir[slug].kind = "dir"
    THEN [error |-> "none", dir |-> dir]
    ELSE IF writableCwd
    THEN [error |-> "none",
          dir |-> [n \in DOMAIN dir \cup {slug} |->
                      IF n = slug THEN WdDir(TRUE, "absent", <<>>) ELSE dir[n]]]
    ELSE [error |-> "PermissionError", dir |-> dir]

\* Line 57: Path(slug).mkdir(parents=True, exist_ok=True)
Mkdir(dir, writableCwd, slug) ==
    IF slug \in DOMAIN dir
    THEN IF dir[slug].kind = "dir"
         THEN [error |-> "none", dir |-> dir]
         ELSE [error |-> "FileExistsError", dir |-> dir]
    ELSE IF writableCwd
    THEN [error |-> "none",
          dir |-> [n \in DOMAIN dir \cup {slug} |->
                      IF n = slug THEN WdDir(TRUE, "absent", <<>>) ELSE dir[n]]]
    ELSE [error |-> "PermissionError", dir |-> dir]

WriteTextAppend(dir, slug, html) ==
    LET e == dir[slug]
    IN  IF e.ikind = "dir" THEN [error |-> "IsADirectoryError", dir |-> dir]
        ELSE IF e.ikind = "absent" /\ ~e.writable
        THEN [error |-> "PermissionError", dir |-> dir]
        ELSE [error |-> "none",
              dir |-> [dir EXCEPT ![slug] =
                          [e EXCEPT !.ikind = "file", !.data = e.data \o html]]]

\* Lines 58 and 77: (out_dir / "index.html").write_text(html)
WriteText(dir, slug, html) ==
    LET e == dir[slug]
    IN  IF e.ikind = "dir" THEN [error |-> "IsADirectoryError", dir |-> dir]
        ELSE IF e.ikind = "absent" /\ ~e.writable
        THEN [error |-> "PermissionError", dir |-> dir]
        ELSE [error |-> "none",
              dir |-> [dir EXCEPT ![slug] = [e EXCEPT !.ikind = "file", !.data = html]]]

MainInit ==
    /\ archiveKind \in {"missing", "file", "dir"}
    /\ archive \in (IF archiveKind = "dir" THEN Archives ELSE {EmptyDir})
    /\ wd \in WorkingDirs
    /\ wd0 = wd
    /\ cwdWritable \in (IF wd = EmptyDir THEN BOOLEAN ELSE {TRUE})
    /\ pc = "idle"
    /\ html_files = <<>>
    /\ created = 0
    /\ status = "none"
    /\ run = 0
    /\ reads = {}
    /\ writes = <<>>
    /\ printed = 0
    /\ snap = wd

FtIdle ==
    /\ ftpc = "off"
    /\ ftText = <<>>
    /\ ftFallback = <<>>
    /\ ftResult = <<>>

Init == MainInit /\ FtIdle

\* Lines 34-42: a run of main() up to the head of the loop.
Start ==
    /\ pc \in {"idle", "exited"}
    /\ run < MaxRuns
    /\ run' = run + 1
    /\ snap' = IF run = 1 THEN wd ELSE snap
    /\ created' = 0
    /\ reads' = {}
    /\ writes' = <<>>
    /\ printed' = 0
    /\ IF archiveKind = "missing"
       THEN /\ status' = "SystemExit"
            /\ pc' = "exited"
            /\ html_files' = <<>>
       ELSE IF archiveKind # "dir"
       THEN /\ status' = "NotADirectoryError"
            /\ pc' = "exited"
            /\ html_files' = <<>>
       ELSE /\ status' = "running"
            /\ pc' = "loop"
            /\ html_files' = CollectPages(archive)
    /\ UNCHANGED <<archiveKind, archive, wd, wd0, cwdWritable, ftVars>>

\* Lines 43-78: one iteration of the loop, for the next page.
ProcessPage ==
    /\ pc = "loop"
    /\ html_files # <<>>
    /\ LET page == Head(html_files)
           slug == Stem(page)
           target_rel == TargetRel(page)
           target_abs == TargetAbs(page)
           rd == ReadText(archive[page])
           title == find_title(rd.text, Fallback(slug))
           made == Mkdir(wd, cwdWritable, slug)
           html == Render(title, target_abs, target_rel)
           wrote == WriteText(made.dir, slug, html)
       IN  /\ reads' = reads \cup {page}
           /\ IF rd.raised
              THEN /\ status' = "ReadError"
                   /\ pc' = "exited"
                   /\ UNCHANGED <<wd, writes, created, html_files>>
              ELSE IF made.error # "none"
              THEN /\ status' = made.error
                   /\ pc' = "exited"
                   /\ UNCHANGED <<wd, writes, created, html_files>>
              ELSE IF wrote.error # "none"
              THEN /\ status' = wrote.error
                   /\ pc' = "exited"
                   /\ wd' = made.dir
                   /\ UNCHANGED <<writes, created, html_files>>
              ELSE /\ wd' = wrote.dir
                   /\ writes' = Append(writes, [name |-> page, path |-> slug, html |-> html])
                   /\ created' = created + 1
                   /\ html_files' = Tail(html_files)
                   /\ UNCHANGED <<status, pc>>
    /\ UNCHANGED <<archiveKind, archive, wd0, cwdWritable, run, printed, snap, ftVars>>

\* Lines 80-81: the loop is over; the two summary lines are printed.
Finish ==
    /\ pc = "loop"
    /\ html_files = <<>>
    /\ printed' = 2
    /\ status' = "ok"
    /\ pc' = "exited"
    /\ UNCHANGED <<archiveKind, archive, wd, wd0, cwdWritable, html_files, created,
                   run, reads, writes, snap, ftVars>>

Next == Start \/ ProcessPage \/ Finish

Spec == Init /\ [][Next]_vars

----------------------------------------------------------------------------
(* find_title applied to bounded page texts *)

MaxTextLen == 4
PadSlack == 2

FtAlphabet == OpenTags \cup CloseTags \cup {" ", "\n", "a", "&amp;", "&#32;"}
BodyAlphabet == {" ", "a", "&amp;", "&#32;"}

SeqsUpTo(S, k) == UNION {[1..m -> S] : m \in 0..k}

Pad(n) == [i \in 1..n |-> "a"]

\* Short texts over the whole alphabet, and titled texts whose body is about
\* MaxTitleLen characters long.
FtTexts ==
    SeqsUpTo(FtAlphabet, MaxTextLen)
    \cup { <<"<title>">> \o pre \o Pad(n) \o post \o <<"</title>">> :
             pre \in SeqsUpTo(BodyAlphabet, 1),
             post \in SeqsUpTo(BodyAlphabet, 2),
             n \in (MaxTitleLen - PadSlack)..(MaxTitleLen + PadSlack) }

MainOff ==
    /\ archiveKind = "missing"
    /\ archive = EmptyDir
    /\ wd = EmptyDir
    /\ wd0 = EmptyDir
    /\ cwdWritable = TRUE
    /\ pc = "off"
    /\ html_files = <<>>
    /\ created = 0
    /\ status = "none"
    /\ run = 0
    /\ reads = {}
    /\ writes = <<>>
    /\ printed = 0
    /\ snap = EmptyDir

FtInit ==
    /\ MainOff
    /\ ftpc = "call"
    /\ ftText \in FtTexts
    /\ ftFallback = <<"F", "b">>
    /\ ftResult = <<>>

FtCall ==
    /\ ftpc = "call"
    /\ ftResult' = find_title(ftText, ftFallback)
    /\ ftpc' = "returned"
    /\ UNCHANGED <<ftText, ftFallback, mainVars>>

FtNext == FtCall

SpecFT == FtInit /\ [][FtNext]_vars

\* The same harness over the short texts alone.
FtInitShort == FtInit /\ Len(ftText) <= MaxTextLen

SpecFTShort == FtInitShort /\ [][FtNext]_vars

----------------------------------------------------------------------------
(* Reading a stub back: the values between the literal pieces *)

Between(html, a, b) == SubSeq(html, IndexOf(a, html) + 1, IndexOf(b, html) - 1)

StubTitle(html) == Between(html, Lit1, Lit2)
StubCanonical(html) == Between(html, Lit2, Lit3)
StubRefresh(html) == Between(html, Lit3, Lit4)
StubScript(html) == Between(html, Lit4, Lit5)
StubLink(html) == Between(html, Lit5, Lit6)

\* The stub has the six literal pieces of the file format, once each, in order.
StubShape(html) ==
    /\ Len(html) >= 6
    /\ html[1] = Lit1
    /\ html[Len(html)] = Lit6
    /\ \A l \in {Lit1, Lit2, Lit3, Lit4, Lit5, Lit6} :
          Cardinality({i \in 1..Len(html) : html[i] = l}) = 1
    /\ IndexOf(Lit2, html) < IndexOf(Lit3, html)
    /\ IndexOf(Lit3, html) < IndexOf(Lit4, html)
    /\ IndexOf(Lit4, html) < IndexOf(Lit5, html)
    /\ IndexOf(Lit5, html) < IndexOf(Lit6, html)

\* The eligible files of the archive directory: regular files that are direct
\* children, with extension .html in any case, not in the exclusion set.
EligibleFiles ==
    {f \in DOMAIN archive :
        /\ archive[f].kind = "file"
        /\ StrLower(Suffix(f)) = <<".","h","t","m","l">>
        /\ f \notin EXCLUDE_FILES}

\* The text main() gets for a file: its content, or nothing when the read fails.
TextOf(f) == IF archive[f].readable THEN archive[f].text ELSE <<>>

\* The title of the page f: extracted from its text, or the fallback.
TitleOf(f) == find_title(TextOf(f), Fallback(Stem(f)))

\* The file ./<slug>/index.html exists as a regular file.
HasOutput(dir, slug) ==
    slug \in DOMAIN dir /\ dir[slug].kind = "dir" /\ dir[slug].ikind = "file"

\* The file ./<slug>/index.html is the stub of the archive file f.
IsStubOf(data, f) ==
    /\ StubShape(data)
    /\ StubTitle(data) = TitleOf(f)
    /\ StubCanonical(data) = <<"https://spi.blue">> \o <<"/archive/">> \o f
    /\ StubRefresh(data) = <<"/archive/">> \o f
    /\ StubScript(data) = <<"/archive/">> \o f
    /\ StubLink(data) = <<"/archive/">> \o f

WriteErrors == {"FileExistsError", "PermissionError", "IsADirectoryError"}

Written == {writes[i].name : i \in 1..Len(writes)}

----------------------------------------------------------------------------
(* Claims *)

\* C1: after a run that terminates normally, every eligible archive file f has
\* its own output ./stem(f)/index.html holding the stub rendered from f, and no
\* two eligible files share an output file.
C1_OneStubPerPage ==
    (pc = "exited" /\ status = "ok") =>
        \A f \in EligibleFiles :
            /\ HasOutput(wd, Stem(f))
            /\ IsStubOf(wd[Stem(f)].data, f)
            /\ \A g \in EligibleFiles : g # f => Stem(g) # Stem(f)

\* C2: a second (and any later) run over the same archive leaves the working
\* directory, and so every output file and the set of output paths, exactly
\* as the first run left it.
C2_Idempotent ==
    (run >= 2 /\ pc = "exited") => wd = snap

C2_Witness ==
    /\ run = 2 /\ pc = "exited" /\ status = "ok"
    /\ Len(writes) >= 2
    /\ wd # wd0
    /\ \E n \in DOMAIN wd0 : wd0[n].ikind = "file"

\* C3: the title find_title returns for a text with a title element never
\* starts or ends with a whitespace character and never holds two adjacent
\* whitespace characters, whatever the title body, character references that
\* stand for whitespace included.
C3_TitleIsTrimmed ==
    (ftpc = "returned" /\ HasTitle(ftText)) =>
        /\ ftResult # <<>> =>
              ftResult[1] \notin Whitespace /\ ftResult[Len(ftResult)] \notin Whitespace
        /\ \A i \in 1..(Len(ftResult) - 1) :
              ~(ftResult[i] \in Whitespace /\ ftResult[i+1] \in Whitespace)

\* The title t is the slug with each hyphen replaced by a space and each word
\* capitalized: the same characters up to case, a space for every hyphen, and
\* an upper-case letter wherever a word starts with a letter.
IsFallbackTitle(slug, t) ==
    /\ Len(t) = Len(slug)
    /\ \A i \in 1..Len(slug) :
          /\ slug[i] = "-" => t[i] = " "
          /\ slug[i] # "-" => ToLower(t[i]) = ToLower(slug[i])
          /\ (IsCased(slug[i]) /\ (i = 1 \/ t[i-1] = " ")) => IsUpper(t[i])

\* C4: a page that cannot be read, or has no title element, gets the fallback
\* title in its stub; a failed read never ends the run: every page read has its
\* stub written unless creating or writing that very output fails, and a run
\* over an archive directory ends normally unless an output cannot be written.
C4_FallbackAndNoAbort ==
    /\ \A i \in 1..Len(writes) :
          LET w == writes[i] IN
          (~archive[w.name].readable \/ ~HasTitle(archive[w.name].text)) =>
              /\ StubShape(w.html)
              /\ IsFallbackTitle(w.path, StubTitle(w.html))
    /\ \A p \in reads :
          \/ p \in Written
          \/ pc = "exited" /\ status \in WriteErrors /\ p = Head(html_files)
    /\ (pc = "exited" /\ archiveKind = "dir") => status \in WriteErrors \cup {"ok"}
    /\ (pc = "exited" /\ status = "ok") => html_files = <<>> /\ Written = EligibleFiles

C4_Witness ==
    /\ pc = "exited" /\ status = "ok"
    /\ \E i \in 1..Len(writes) :
          /\ ~archive[writes[i].name].readable
          /\ writes[i].path = <<"b", "-", "c">>
          /\ StubTitle(writes[i].html) = <<"B", " ", "C">>
    /\ \E i \in 1..Len(writes) :
          /\ archive[writes[i].name].readable
          /\ ~HasTitle(archive[writes[i].name].text)
          /\ i < Len(writes)

\* C5: for a text with a title element the result is never longer than 140
\* characters: the first 140 characters of the cleaned title when that is
\* longer, with nothing appended, and the cleaned title itself otherwise.
C5_Truncation ==
    (ftpc = "returned" /\ HasTitle(ftText)) =>
        LET clean == CleanTitle(TitleBody(ftText)) IN
        /\ Len(ftResult) <= 140
        /\ Len(clean) > 140 =>
              /\ Len(ftResult) = 140
              /\ \A i \in 1..140 : ftResult[i] = clean[i]
        /\ Len(clean) <= 140 => ftResult = clean

C5_Witness ==
    /\ ftpc = "returned" /\ HasTitle(ftText)
    /\ Len(CleanTitle(TitleBody(ftText))) = 142
    /\ Len(ftResult) = 140

\* C6: a file whose name is in the exclusion set is never listed for
\* processing, read or written, and ./index/index.html and ./404/index.html
\* are touched only on account of an eligible file with that stem.
C6_Exclusion ==
    /\ \A i \in 1..Len(html_files) : html_files[i] \notin EXCLUDE_FILES
    /\ \A n \in reads : n \notin EXCLUDE_FILES
    /\ \A n \in Written : n \notin EXCLUDE_FILES
    /\ LET stems == {Stem(f) : f \in EligibleFiles} IN
       \A x \in EXCLUDE_FILES :
          LET s == Stem(x) IN
          s \notin stems =>
              /\ s \in DOMAIN wd <=> s \in DOMAIN wd0
              /\ s \in DOMAIN wd => wd[s] = wd0[s]

C6_Witness ==
    /\ pc = "exited" /\ status = "ok"
    /\ Name_index_html \in DOMAIN archive
    /\ Name_404_html \in DOMAIN archive
    /\ Len(writes) >= 1
    /\ Stem(Name_index_html) \notin DOMAIN wd

\* C7: when the archive path is missing or is not a directory, the run ends
\* with the configuration error (the exit "Archive path not found") and has
\* produced nothing: no directory, no file, no summary line.
C7_ConfigurationError ==
    (run >= 1 /\ archiveKind # "dir") =>
        /\ pc = "exited"
        /\ status = "SystemExit"
        /\ wd = wd0
        /\ writes = <<>>
        /\ printed = 0

C9_AbortKeepsEarlierStubs ==
    /\ \A i \in 1..Len(html_files) : \A j \in (i+1)..Len(html_files) :
          StrLess(html_files[i], html_files[j])
    /\ \A i \in 1..Len(writes) :
          /\ \A j \in (i+1)..Len(writes) : StrLess(writes[i].name, writes[j].name)
          /\ \A j \in 1..Len(html_files) : StrLess(writes[i].name, html_files[j])
    /\ (pc = "exited" /\ status \in WriteErrors) =>
          /\ printed = 0
          /\ html_files # <<>>
          /\ reads = Written \cup {Head(html_files)}
          /\ \A i \in 1..Len(writes) :
                /\ HasOutput(wd, Stem(writes[i].name))
                /\ IsStubOf(wd[Stem(writes[i].name)].data, writes[i].name)

\* The page the loop is about to process.
Processing(n) ==
    /\ pc = "loop"
    /\ html_files # <<>>
    /\ n = Stem(Head(html_files))
    /\ Head(html_files) \in DOMAIN archive
    /\ archive[Head(html_files)].kind = "file"

\* C10: a step of a run leaves the archive as it is, and changes the working
\* directory only at the output of the page it processes, a regular file that
\* is a direct child of the archive: the directory ./<slug> may be created, and
\* in it only index.html is created or overwritten; nothing is written for
\* the file e.html that exists only in the subdirectory d.html.
C10_Frame ==
    [][ /\ archive' = archive
        /\ archiveKind' = archiveKind
        /\ \A n \in DOMAIN wd :
              /\ n \in DOMAIN wd'
              /\ wd'[n] # wd[n] =>
                    /\ Processing(n)
                    /\ wd[n].kind = "dir" /\ wd'[n].kind = "dir"
                    /\ wd'[n].writable = wd[n].writable
                    /\ wd[n].ikind # "dir" /\ wd'[n].ikind = "file"
        /\ \A n \in DOMAIN wd' \ DOMAIN wd :
              Processing(n) /\ wd'[n].kind = "dir"
        /\ Stem(Name_e_html) \notin DOMAIN wd'
        /\ Name_e_html \notin reads'
      ]_vars

C10_Witness ==
    /\ pc = "exited" /\ status = "ok"
    /\ Name_keep \in DOMAIN wd0
    /\ Name_d_html \in DOMAIN archive
    /\ Name_notes_txt \in DOMAIN archive
    /\ Len(writes) >= 1

====
